---- MODULE Spec2Model ----
(***************************************************************************)
(* State-machine model of the React front end of the algo-trading          *)
(* repository: the routed App (one page component mounted at a time), the  *)
(* Backtest page (runBacktest and its completion callback), the Trading    *)
(* page (live-price polling, startTrading, stopTrading) and the Portfolio  *)
(* component.                                                              *)
(*                                                                         *)
(* Money on the Backtest and Trading pages is in whole dollars, as the     *)
(* literals of the source are; the Portfolio literals carry cents          *)
(* (245.29), so the Portfolio record is in cents.  A quotient the code     *)
(* computes in floating point is kept as an exact fraction [num, den].     *)
(***************************************************************************)
EXTENDS Integers, Sequences, FiniteSets, TLC

VARIABLES
    page,               \* the route whose element is mounted
    \* ---- Backtest component state (useState) and its pending work
    btSelectedSymbol,
    btSelectedStrategy,
    period,
    isRunning,
    results,
    timers,             \* pending setTimeout callbacks, each with the values its closure captured
    btpc,               \* "idle", or "loop" while a completion callback is executing
    closure,            \* the captured values of the executing callback
    loopIndex,          \* number of trades the forEach has processed
    equity,
    maxEquity,
    equityData,
    drawdownData,
    \* ---- Trading component state and its live-price requests
    selectedSymbol,
    selectedStrategy,
    isTrading,
    trades,
    signals,
    pnlData,
    livePrice,
    interval,           \* the symbol captured by the active setInterval callback
    inflight,           \* fetches issued and not yet settled
    issued,             \* number of fetches issued since the component mounted
    \* ---- Portfolio component state
    portfolio,
    \* ---- Chart component: one evaluation of its SMA series
    data,               \* chartData.data, the bars handed to computeSMA
    smaPeriod,          \* the period argument of computeSMA
    computed,           \* the outcome of computeSMA(data, period), null before the call
    processedData,      \* the outcome of building the chart's series, null before it
    \* ---- Chart component: its props, state and historical-data requests
    symbolProp,         \* the symbol prop
    chartData,
    isLoading,
    chartFetches,       \* fetchChartData calls awaiting their response
    chartIssued,        \* number of fetchChartData calls since the component mounted
    \* ---- App: the connection flag and its /health requests
    isConnected,
    healthChecks,       \* checkConnection calls that have not finished
    healthIssued,       \* number of checkConnection calls since the App mounted
    \* ---- LiveFeed component state and its polls
    feedData,
    lfIsConnected,      \* LiveFeed's own isConnected
    polls,              \* fetchLiveData calls that have not finished
    pollsIssued,        \* number of fetchLiveData calls since the component mounted
    arrived             \* the response whose continuation is running, or null

btVars == <<btSelectedSymbol, btSelectedStrategy, period, isRunning, results,
            timers, btpc, closure, loopIndex, equity, maxEquity, equityData,
            drawdownData>>

trVars == <<selectedSymbol, selectedStrategy, isTrading, trades, signals,
            pnlData, livePrice, interval, inflight, issued>>

smaVars == <<data, smaPeriod, computed, processedData>>

chVars == <<symbolProp, chartData, isLoading, chartFetches, chartIssued>>

appVars == <<isConnected, healthChecks, healthIssued>>

lfVars == <<feedData, lfIsConnected, polls, pollsIssued, arrived>>

vars == <<page, btVars, trVars, portfolio, smaVars, chVars, appVars, lfVars>>

\* JavaScript null, for the state cells that hold null or an object.
NULL == [null |-> TRUE]

(***************************************************************************)
(* Bounds of the model.                                                    *)
(***************************************************************************)
NSymbols == 2       \* how many entries of the symbol list the user picks among
NStrategies == 2    \* how many entries of the strategy list
NPeriods == 2       \* how many entries of the period list
MaxRequests == 3    \* live-price fetches issued per mount of Trading

(***************************************************************************)
(* Literals of the source.                                                 *)
(***************************************************************************)
symbols == <<"AAPL", "MSFT", "GOOGL", "AMZN", "TSLA", "NVDA">>

strategies == <<"sma_crossover", "rsi_momentum", "bollinger_bands">>

periods == <<"1m", "3m", "6m", "1y", "2y", "5y">>

Min2(a, b) == IF a < b THEN a ELSE b

SymbolChoices == {symbols[i] : i \in 1..Min2(NSymbols, Len(symbols))}

StrategyChoices == {strategies[i] : i \in 1..Min2(NStrategies, Len(strategies))}

PeriodChoices == {periods[i] : i \in 1..Min2(NPeriods, Len(periods))}

Pages == {"dashboard", "trading", "backtest", "portfolio", "live-feed"}

InitialCapital == 100000

\* The ledger literal of the completion callback.
BacktestTrades ==
    << [date |-> "2024-01-15", action |-> "BUY",  price |-> 150, quantity |-> 100, pnl |-> 0],
       [date |-> "2024-01-20", action |-> "SELL", price |-> 155, quantity |-> 100, pnl |-> 500],
       [date |-> "2024-02-01", action |-> "BUY",  price |-> 152, quantity |-> 100, pnl |-> 0],
       [date |-> "2024-02-10", action |-> "SELL", price |-> 148, quantity |-> 100, pnl |-> 0 - 400],
       [date |-> "2024-03-01", action |-> "BUY",  price |-> 145, quantity |-> 100, pnl |-> 0],
       [date |-> "2024-03-15", action |-> "SELL", price |-> 160, quantity |-> 100, pnl |-> 1500] >>

(***************************************************************************)
(* Exact fractions, for the quotients the code computes in floating point. *)
(* Denominators are positive and fractions are kept in lowest terms, so    *)
(* that products of numerators and denominators stay in range.             *)
(***************************************************************************)
Abs(n) == IF n < 0 THEN 0 - n ELSE n

RECURSIVE GCD(_, _)
GCD(a, b) == IF b = 0 THEN a ELSE GCD(b, a % b)

Frac(n, d) == LET g == GCD(Abs(n), d) IN [num |-> n \div g, den |-> d \div g]

FracEq(a, b) == a.num * b.den = b.num * a.den

FracLeq(a, b) == a.num * b.den <= b.num * a.den

MathMax(a, b) == IF a >= b THEN a ELSE b

\* Faulty variant: the decline is divided by the initial capital, not by the peak.
DrawdownOverInitial(eq, mx) == Frac((eq - mx) * 100, InitialCapital)

\* ((equity - maxEquity) / maxEquity) * 100
DrawdownOf(eq, mx) == Frac((eq - mx) * 100, mx)

(***************************************************************************)
(* Backtest                                                                *)
(***************************************************************************)
BacktestInit ==
    /\ btSelectedSymbol = "AAPL"
    /\ btSelectedStrategy = "sma_crossover"
    /\ period = "1y"
    /\ isRunning = FALSE
    /\ results = NULL
    /\ timers = <<>>
    /\ btpc = "idle"
    /\ closure = NULL
    /\ loopIndex = 0
    /\ equity = InitialCapital
    /\ maxEquity = InitialCapital
    /\ equityData = <<>>
    /\ drawdownData = <<>>

\* No handler runs while the completion callback is executing (run to completion).
Quiescent == btpc = "idle"

loopVars == <<btpc, closure, loopIndex, equity, maxEquity, equityData, drawdownData>>

BtSetSelectedSymbol(s) ==
    /\ page = "backtest" /\ Quiescent
    /\ s # btSelectedSymbol
    /\ btSelectedSymbol' = s
    /\ UNCHANGED <<btSelectedStrategy, period, isRunning, results, timers, loopVars>>

BtSetSelectedStrategy(s) ==
    /\ page = "backtest" /\ Quiescent
    /\ s # btSelectedStrategy
    /\ btSelectedStrategy' = s
    /\ UNCHANGED <<btSelectedSymbol, period, isRunning, results, timers, loopVars>>

SetPeriod(p) ==
    /\ page = "backtest" /\ Quiescent
    /\ p # period
    /\ period' = p
    /\ UNCHANGED <<btSelectedSymbol, btSelectedStrategy, isRunning, results, timers, loopVars>>

\* Faulty variant: the Run button is never disabled.
RunAlwaysEnabled == TRUE

\* The Run button is disabled while isRunning.
RunEnabled == ~isRunning

runBacktest ==
    /\ page = "backtest" /\ Quiescent
    /\ RunEnabled
    /\ isRunning' = TRUE
    /\ timers' = Append(timers, [symbol |-> btSelectedSymbol,
                                 strategy |-> btSelectedStrategy,
                                 period |-> period])
    /\ UNCHANGED <<btSelectedSymbol, btSelectedStrategy, period, results, loopVars>>

RemoveAt(s, k) == [i \in 1..(Len(s) - 1) |-> IF i < k THEN s[i] ELSE s[i + 1]]

\* The timeout expires: the callback starts with its locals initialised.
TimerFires(k) ==
    /\ page = "backtest" /\ Quiescent
    /\ k \in 1..Len(timers)
    /\ closure' = timers[k]
    /\ timers' = RemoveAt(timers, k)
    /\ btpc' = "loop"
    /\ loopIndex' = 0
    /\ equity' = InitialCapital
    /\ maxEquity' = InitialCapital
    /\ equityData' = <<>>
    /\ drawdownData' = <<>>
    /\ UNCHANGED <<btSelectedSymbol, btSelectedStrategy, period, isRunning, results>>

NextEquity(eq, trade) == eq + trade.pnl

\* Faulty variant: the peak is never raised.
KeepInitialPeak(mx, eq) == mx

\* Faulty variant: the peak is overwritten by the current equity.
PeakIsCurrentEquity(mx, eq) == eq

NextMaxEquity(mx, eq) == MathMax(mx, eq)

\* One iteration of trades.forEach.
ForEachTrade ==
    /\ btpc = "loop"
    /\ loopIndex < Len(BacktestTrades)
    /\ LET trade == BacktestTrades[loopIndex + 1]
           eq == NextEquity(equity, trade)
           mx == NextMaxEquity(maxEquity, eq)
       IN  /\ equity' = eq
           /\ maxEquity' = mx
           /\ equityData' = Append(equityData, [date |-> trade.date, equity |-> eq])
           /\ drawdownData' = Append(drawdownData,
                                     [date |-> trade.date, drawdown |-> DrawdownOf(eq, mx)])
    /\ loopIndex' = loopIndex + 1
    /\ UNCHANGED <<btSelectedSymbol, btSelectedStrategy, period, isRunning, results,
                   timers, btpc, closure>>

(***************************************************************************)
(* JavaScript numbers of the metrics: a finite value is an exact fraction, *)
(* and a division by zero gives Infinity, -Infinity or NaN.                *)
(***************************************************************************)
NaN == [nan |-> TRUE]

Infinity == [inf |-> 1]

NegInfinity == [inf |-> 0 - 1]

IsFinite(x) == x # NaN /\ x # Infinity /\ x # NegInfinity

\* a / b on integers
JsDivide(a, b) ==
    IF b > 0 THEN Frac(a, b)
    ELSE IF b < 0 THEN Frac(0 - a, 0 - b)
    ELSE IF a = 0 THEN NaN
    ELSE IF a > 0 THEN Infinity ELSE NegInfinity

\* Math.abs(x)
MathAbs(x) ==
    IF IsFinite(x) THEN [num |-> Abs(x.num), den |-> x.den]
    ELSE IF x = NaN THEN NaN ELSE Infinity

\* x || 0: NaN and 0 are falsy
OrZero(x) == IF x = NaN \/ (IsFinite(x) /\ x.num = 0) THEN Frac(0, 1) ELSE x

\* x * 100
Times100(x) == IF IsFinite(x) THEN Frac(x.num * 100, x.den) ELSE x

\* trades.filter(t => t.pnl > 0), trades.filter(t => t.pnl < 0)
Winning(ledger) == SelectSeq(ledger, LAMBDA t : t.pnl > 0)

Losing(ledger) == SelectSeq(ledger, LAMBDA t : t.pnl < 0)

\* .reduce((sum, t) => sum + t.pnl, 0)
RECURSIVE SumPnl(_)
SumPnl(ledger) == IF ledger = <<>> THEN 0 ELSE Head(ledger).pnl + SumPnl(Tail(ledger))

\* (trades.filter(t => t.pnl > 0).length / trades.length) * 100
WinRateOf(ledger) == Times100(JsDivide(Len(Winning(ledger)), Len(ledger)))

AverageWinOf(ledger) == OrZero(JsDivide(SumPnl(Winning(ledger)), Len(Winning(ledger))))

AverageLossOf(ledger) == OrZero(JsDivide(SumPnl(Losing(ledger)), Len(Losing(ledger))))

\* Faulty variant: the absolute value is not taken.
SignedProfitFactorOf(ledger) ==
    OrZero(JsDivide(SumPnl(Winning(ledger)), SumPnl(Losing(ledger))))

\* Math.abs(sum of winning pnl / sum of losing pnl) || 0
ProfitFactorOf(ledger) ==
    OrZero(MathAbs(JsDivide(SumPnl(Winning(ledger)), SumPnl(Losing(ledger)))))

\* sharpeRatio: 1.45
SharpeRatioLiteral == Frac(145, 100)

\* Faulty variant: the gain is divided by the final capital.
TotalReturnOverFinal(eq) == Times100(JsDivide(eq - InitialCapital, eq))

\* ((equity - 100000) / 100000) * 100
TotalReturnPercentageOf(eq) == Times100(JsDivide(eq - InitialCapital, InitialCapital))

\* Math.min of two finite numbers
MathMin(a, b) == IF FracLeq(a, b) THEN a ELSE b

\* Faulty variant: the largest value of the curve is taken.
LargestDrawdownOf(dd) ==
    LET RECURSIVE Fold(_, _)
        Fold(acc, k) ==
            IF k > Len(dd) THEN acc
            ELSE Fold(IF acc = Infinity \/ FracLeq(acc, dd[k].drawdown)
                      THEN dd[k].drawdown ELSE acc, k + 1)
    IN  Fold(Infinity, 1)

\* Math.min(...drawdownData.map(d => d.drawdown)); Math.min() is Infinity
MaxDrawdownOf(dd) ==
    LET RECURSIVE Fold(_, _)
        Fold(acc, k) ==
            IF k > Len(dd) THEN acc
            ELSE Fold(IF acc = Infinity THEN dd[k].drawdown
                      ELSE MathMin(acc, dd[k].drawdown), k + 1)
    IN  Fold(Infinity, 1)

\* Faulty variant: deriving the metrics reverses the array in place.
ReversedByMetrics(arr) == [k \in 1..Len(arr) |-> arr[Len(arr) + 1 - k]]

\* An array after the metrics are derived from it: filter, reduce, map and the
\* spread into Math.min read it and build new arrays.
AfterMetrics(arr) == arr

\* Faulty variant: the callback reads the selection current when it runs.
LatestSelection ==
    [symbol |-> btSelectedSymbol, strategy |-> btSelectedStrategy, period |-> period]

\* selectedSymbol, selectedStrategy and period as the callback's closure holds
\* them: the values of the render in which Run was clicked.
RunSelection == closure

MockResults ==
    [symbol |-> RunSelection.symbol,
     strategy |-> RunSelection.strategy,
     period |-> RunSelection.period,
     startDate |-> "2024-01-01",
     endDate |-> "2024-12-31",
     initialCapital |-> InitialCapital,
     finalCapital |-> equity,
     totalReturn |-> equity - InitialCapital,
     totalReturnPercentage |-> TotalReturnPercentageOf(equity),
     sharpeRatio |-> SharpeRatioLiteral,
     maxDrawdown |-> MaxDrawdownOf(drawdownData),
     totalTrades |-> Len(BacktestTrades),
     winningTrades |-> Len(Winning(BacktestTrades)),
     losingTrades |-> Len(Losing(BacktestTrades)),
     winRate |-> WinRateOf(BacktestTrades),
     averageWin |-> AverageWinOf(BacktestTrades),
     averageLoss |-> AverageLossOf(BacktestTrades),
     profitFactor |-> ProfitFactorOf(BacktestTrades),
     trades |-> AfterMetrics(BacktestTrades),
     equityData |-> AfterMetrics(equityData),
     drawdownData |-> AfterMetrics(drawdownData),
     tradeMarkers |-> [i \in 1..Len(BacktestTrades) |->
                          [x |-> BacktestTrades[i].date, y |-> BacktestTrades[i].price,
                           type |-> BacktestTrades[i].action, pnl |-> BacktestTrades[i].pnl]]]

\* Faulty variant: the callback ends without setIsRunning(false).
BacktestCompletesStillRunning ==
    /\ btpc = "loop"
    /\ loopIndex = Len(BacktestTrades)
    /\ results' = MockResults
    /\ btpc' = "idle"
    /\ closure' = NULL
    /\ UNCHANGED <<btSelectedSymbol, btSelectedStrategy, period, isRunning, timers,
                   loopIndex, equity, maxEquity, equityData, drawdownData>>

\* After the loop: setResults(mockResults); setIsRunning(false).
BacktestCompletes ==
    /\ btpc = "loop"
    /\ loopIndex = Len(BacktestTrades)
    /\ results' = MockResults
    /\ isRunning' = FALSE
    /\ btpc' = "idle"
    /\ closure' = NULL
    /\ UNCHANGED <<btSelectedSymbol, btSelectedStrategy, period, timers,
                   loopIndex, equity, maxEquity, equityData, drawdownData>>

(***************************************************************************)
(* Trading                                                                 *)
(***************************************************************************)
\* Prices a live quote can carry (0 exercises `livePrice?.price || 150`).
Prices == {0, 40}

DefaultBasePrice == 150

TradeQuantity == 100

TradingUnmounted ==
    /\ selectedSymbol = "AAPL"
    /\ selectedStrategy = "sma_crossover"
    /\ isTrading = FALSE
    /\ trades = <<>>
    /\ signals = <<>>
    /\ pnlData = <<>>
    /\ livePrice = NULL
    /\ interval = "none"
    /\ inflight = {}
    /\ issued = 0

\* A fetch of /data/live/<symbol>; seq is the order of issue, which is the
\* time of the quote the server answers it with.
Request(n, s) == [seq |-> n, symbol |-> s]

\* useState initial values, then the effect: fetchLivePrice(); setInterval(...).
TradingMounted ==
    /\ selectedSymbol' = "AAPL"
    /\ selectedStrategy' = "sma_crossover"
    /\ isTrading' = FALSE
    /\ trades' = <<>>
    /\ signals' = <<>>
    /\ pnlData' = <<>>
    /\ livePrice' = NULL
    /\ interval' = "AAPL"
    /\ inflight' = {Request(1, "AAPL")}
    /\ issued' = 1

sessionVars == <<isTrading, trades, signals, pnlData>>

\* onChange of the symbol select: the effect's cleanup clears the interval,
\* the effect runs again for the new symbol.
SetSelectedSymbol(s) ==
    /\ page = "trading"
    /\ s # selectedSymbol
    /\ issued < MaxRequests
    /\ selectedSymbol' = s
    /\ interval' = s
    /\ issued' = issued + 1
    /\ inflight' = inflight \cup {Request(issued + 1, s)}
    /\ UNCHANGED <<selectedStrategy, sessionVars, livePrice>>

SetSelectedStrategy(s) ==
    /\ page = "trading"
    /\ s # selectedStrategy
    /\ selectedStrategy' = s
    /\ UNCHANGED <<selectedSymbol, sessionVars, livePrice, interval, inflight, issued>>

\* The 5 s interval expires: fetchLivePrice of the closure's symbol.
IntervalTick ==
    /\ page = "trading"
    /\ interval # "none"
    /\ issued < MaxRequests
    /\ issued' = issued + 1
    /\ inflight' = inflight \cup {Request(issued + 1, interval)}
    /\ UNCHANGED <<selectedSymbol, selectedStrategy, sessionVars, livePrice, interval>>

Quote(r, p) == [symbol |-> r.symbol, price |-> p, seq |-> r.seq]

\* What a settled fetch leaves in livePrice: setLivePrice(data) on an ok
\* response, nothing on a non-ok response or a thrown request.
LivePriceAfter(cur, r, outcome, p) ==
    IF outcome = "ok" THEN Quote(r, p) ELSE cur

FetchSettles(r, outcome, p) ==
    /\ page = "trading"
    /\ r \in inflight
    /\ inflight' = inflight \ {r}
    /\ livePrice' = LivePriceAfter(livePrice, r, outcome, p)
    /\ UNCHANGED <<selectedSymbol, selectedStrategy, sessionVars, interval, issued>>

\* livePrice?.price || 150
BasePrice(lp) == IF lp = NULL \/ lp.price = 0 THEN DefaultBasePrice ELSE lp.price

\* Faulty variant: the second signal is a BUY.
MockSignalsBuyTwice(basePrice, strategy) ==
    << [x |-> "2024-01-15", y |-> basePrice - 5, type |-> "BUY",  strategy |-> strategy],
       [x |-> "2024-01-20", y |-> basePrice,     type |-> "BUY",  strategy |-> strategy],
       [x |-> "2024-02-01", y |-> basePrice + 2, type |-> "SELL", strategy |-> strategy],
       [x |-> "2024-02-10", y |-> basePrice - 3, type |-> "SELL", strategy |-> strategy] >>

\* Faulty variant: the last signal is a BUY, so the second position is never exited.
MockSignalsNoExit(basePrice, strategy) ==
    << [x |-> "2024-01-15", y |-> basePrice - 5, type |-> "BUY",  strategy |-> strategy],
       [x |-> "2024-01-20", y |-> basePrice,     type |-> "SELL", strategy |-> strategy],
       [x |-> "2024-02-01", y |-> basePrice + 2, type |-> "BUY",  strategy |-> strategy],
       [x |-> "2024-02-10", y |-> basePrice - 3, type |-> "BUY",  strategy |-> strategy] >>

MockSignals(basePrice, strategy) ==
    << [x |-> "2024-01-15", y |-> basePrice - 5, type |-> "BUY",  strategy |-> strategy],
       [x |-> "2024-01-20", y |-> basePrice,     type |-> "SELL", strategy |-> strategy],
       [x |-> "2024-02-01", y |-> basePrice + 2, type |-> "BUY",  strategy |-> strategy],
       [x |-> "2024-02-10", y |-> basePrice - 3, type |-> "SELL", strategy |-> strategy] >>

\* new Date('YYYY-MM-DD').toISOString(): a date-only string is UTC midnight.
ToISOString(x) == x \o "T00:00:00.000Z"

\* mockSignals.map((signal, index) => ...); index here is 1-based, so id = index.
MockTrades(sigs, symbol) ==
    [index \in 1..Len(sigs) |->
        [id |-> index,
         symbol |-> symbol,
         action |-> sigs[index].type,
         price |-> sigs[index].y,
         quantity |-> TradeQuantity,
         timestamp |-> ToISOString(sigs[index].x)]]

\* Faulty variant: each entry holds the trade's own P&L, not the running total.
RECURSIVE CumulativePnlNotAccumulated(_, _)
CumulativePnlNotAccumulated(mt, n) ==
    IF n = 0 THEN <<>>
    ELSE LET acc == CumulativePnlNotAccumulated(mt, n - 1)
             pnl == IF (n - 1) % 2 = 1
                    THEN (mt[n].price - mt[n - 1].price) * mt[n].quantity
                    ELSE 0
         IN  Append(acc, [time |-> mt[n].timestamp, pnl |-> pnl])

\* Faulty variant: the trade at an even 0-based index is paired with the
\* trade before it.
RECURSIVE CumulativePnlEvenIndex(_, _)
CumulativePnlEvenIndex(mt, n) ==
    IF n = 0 THEN <<>>
    ELSE LET acc == CumulativePnlEvenIndex(mt, n - 1)
             pnl == IF (n - 1) % 2 = 0 /\ n > 1
                    THEN (mt[n].price - mt[n - 1].price) * mt[n].quantity
                    ELSE 0
         IN  Append(acc, [time |-> mt[n].timestamp,
                          pnl |-> IF Len(acc) > 0 THEN acc[Len(acc)].pnl + pnl ELSE pnl])

\* The accumulator of mockTrades.reduce after its first n trades.  The
\* 0-based index of trade n is n - 1.
RECURSIVE CumulativePnl(_, _)
CumulativePnl(mt, n) ==
    IF n = 0 THEN <<>>
    ELSE LET acc == CumulativePnl(mt, n - 1)
             pnl == IF (n - 1) % 2 = 1
                    THEN (mt[n].price - mt[n - 1].price) * mt[n].quantity
                    ELSE 0
         IN  Append(acc, [time |-> mt[n].timestamp,
                          pnl |-> IF Len(acc) > 0 THEN acc[Len(acc)].pnl + pnl ELSE pnl])

\* Faulty variant: the Start button is rendered whatever isTrading is.
StartAlwaysOffered == TRUE

\* The Start button is rendered only while !isTrading.
StartOffered == ~isTrading

startTrading ==
    /\ page = "trading"
    /\ StartOffered
    /\ LET mockSignals == MockSignals(BasePrice(livePrice), selectedStrategy)
           mockTrades == MockTrades(mockSignals, selectedSymbol)
       IN  /\ isTrading' = TRUE
           /\ signals' = mockSignals
           /\ trades' = mockTrades
           /\ pnlData' = CumulativePnl(mockTrades, Len(mockTrades))
    /\ UNCHANGED <<selectedSymbol, selectedStrategy, livePrice, interval, inflight, issued>>

\* Faulty variant: stopping also clears the session's ledger.
stopTradingClearsSession ==
    /\ page = "trading"
    /\ isTrading
    /\ isTrading' = FALSE
    /\ trades' = <<>>
    /\ UNCHANGED <<selectedSymbol, selectedStrategy, signals, pnlData,
                   livePrice, interval, inflight, issued>>

\* The Stop button is rendered only while isTrading.
stopTrading ==
    /\ page = "trading"
    /\ isTrading
    /\ isTrading' = FALSE
    /\ UNCHANGED <<selectedSymbol, selectedStrategy, trades, signals, pnlData,
                   livePrice, interval, inflight, issued>>

(***************************************************************************)
(* Portfolio (amounts in cents)                                            *)
(***************************************************************************)
PortfolioInitial ==
    [totalValue |-> 10000000,
     cash |-> 5000000,
     positions |->
        << [symbol |-> "AAPL",  shares |-> 100, avgPrice |-> 15000,  currentPrice |-> 24529],
           [symbol |-> "MSFT",  shares |-> 50,  avgPrice |-> 30000,  currentPrice |-> 41250],
           [symbol |-> "GOOGL", shares |-> 25,  avgPrice |-> 250000, currentPrice |-> 278000] >>]

\* Dashboard renders <Portfolio />; the /portfolio route renders it alone.
PortfolioShown == page \in {"dashboard", "portfolio"}

(***************************************************************************)
(* Chart: computeSMA and the series derived from it.  A bar is an object   *)
(* of the historical-data response; the SMA of a bar is an exact fraction  *)
(* or null.                                                                *)
(***************************************************************************)
MaxBars == 4

MaxPeriod == 3

DefaultSmaPeriod == 20

Closes == {1, 2, 4}

Datetimes ==
    << "2024-01-02", "2024-01-03", "2024-01-04", "2024-01-05",
       "2024-01-08", "2024-01-09", "2024-01-10", "2024-01-11" >>

LocaleDates ==
    << "1/2/2024", "1/3/2024", "1/4/2024", "1/5/2024",
       "1/8/2024", "1/9/2024", "1/10/2024", "1/11/2024" >>

\* new Date(x).toLocaleDateString()
ToLocaleDateString(x) ==
    LocaleDates[CHOOSE k \in 1..Len(Datetimes) : Datetimes[k] = x]

\* The responses' bars: consecutive trading days, any close.
Bar(k, close) == [Datetime |-> Datetimes[k], Close |-> close, Volume |-> 1000 * k]

BarSeqs ==
    UNION {{[k \in 1..n |-> Bar(k, c[k])] : c \in [1..n -> Closes]} : n \in 0..MaxBars}

\* arr.slice(start, end) with 0-based bounds
Slice(arr, start, end) ==
    LET len == Len(arr)
        from == IF start < 0 THEN MathMax(len + start, 0) ELSE Min2(start, len)
        to == IF end < 0 THEN MathMax(len + end, 0) ELSE Min2(end, len)
    IN  IF from >= to THEN <<>> ELSE SubSeq(arr, from + 1, to)

\* slice.reduce((sum, item) => sum + item.Close, 0)
RECURSIVE SumClose(_)
SumClose(slice) ==
    IF slice = <<>> THEN 0 ELSE Head(slice).Close + SumClose(Tail(slice))

\* { ...d, sma }
WithSma(d, sma) ==
    [Datetime |-> d.Datetime, Close |-> d.Close, Volume |-> d.Volume, sma |-> sma]

\* Faulty variant: the window starts one bar early and has period + 1 bars.
computeSMAWideWindow(arr, p) ==
    [k \in 1..Len(arr) |->
        LET i == k - 1
        IN  IF i < p - 1 THEN WithSma(arr[k], NULL)
            ELSE WithSma(arr[k], JsDivide(SumClose(Slice(arr, i - p, i + 1)), p))]

\* Faulty variant: the window runs forward from bar i.
computeSMALookAhead(arr, p) ==
    [k \in 1..Len(arr) |->
        LET i == k - 1
        IN  IF i < p - 1 THEN WithSma(arr[k], NULL)
            ELSE WithSma(arr[k], JsDivide(SumClose(Slice(arr, i, i + p)), p))]

\* data.map((d, i) => ...): entry k of the result is for 0-based index k - 1
computeSMA(arr, p) ==
    [k \in 1..Len(arr) |->
        LET i == k - 1
        IN  IF i < p - 1 THEN WithSma(arr[k], NULL)
            ELSE WithSma(arr[k], JsDivide(SumClose(Slice(arr, i - p + 1, i + 1)), p))]

\* Faulty variant: the SMA is written into the bars of the input.
InputWithSmaWritten(arr, p) == computeSMA(arr, p)

\* The input array after computeSMA: map, slice and reduce leave it alone,
\* and the spread copies each bar into a new object.
InputAfterComputeSMA(arr, p) == arr

\* x || null: null, NaN and 0 are falsy
OrNull(x) == IF x = NULL \/ x = NaN \/ (IsFinite(x) /\ x.num = 0) THEN NULL ELSE x

\* computeSMA(data).map(d => ({...})).filter(d => d.sma !== null)
ProcessedDataOf(sma) ==
    SelectSeq([k \in 1..Len(sma) |->
                  [date |-> ToLocaleDateString(sma[k].Datetime),
                   price |-> sma[k].Close,
                   sma |-> OrNull(sma[k].sma),
                   volume |-> sma[k].Volume]],
              LAMBDA d : d.sma # NULL)

\* A call that completed normally with value v; a cell holding the outcome
\* of a call is null until the call is made.
Returned(v) == [returned |-> v]

\* The component before it has data: nothing is computed.
SmaIdle ==
    /\ data = <<>>
    /\ smaPeriod = DefaultSmaPeriod
    /\ computed = NULL
    /\ processedData = NULL

CallComputeSMA ==
    /\ computed = NULL
    /\ computed' = Returned(computeSMA(data, smaPeriod))
    /\ data' = InputAfterComputeSMA(data, smaPeriod)
    /\ UNCHANGED <<smaPeriod, processedData>>

BuildProcessedData ==
    /\ computed # NULL
    /\ processedData = NULL
    /\ processedData' = Returned(ProcessedDataOf(computed.returned))
    /\ UNCHANGED <<data, smaPeriod, computed>>

(***************************************************************************)
(* Chart: the historical-data request.  The effect runs at mount and each  *)
(* time the symbol prop changes; nothing cancels a request already made.   *)
(***************************************************************************)
MaxChartRequests == 4

\* Values of data_points in a response.
DataPoints == {0, 30}

\* The Chart outside the specification of its requests: not mounted.
ChartUnmounted ==
    /\ symbolProp = "AAPL"
    /\ chartData = NULL
    /\ isLoading = TRUE
    /\ chartFetches = {}
    /\ chartIssued = 0

\* useState(null), useState(true), then the effect: setIsLoading(true) and
\* the fetch for the symbol prop.  The parent's selectedSymbol starts at AAPL.
ChartMounted ==
    /\ symbolProp = "AAPL"
    /\ chartData = NULL
    /\ isLoading = TRUE
    /\ chartFetches = {Request(1, "AAPL")}
    /\ chartIssued = 1

\* The parent renders the Chart with another symbol: the effect runs again.
SymbolPropChanges(s) ==
    /\ s # symbolProp
    /\ chartIssued < MaxChartRequests
    /\ symbolProp' = s
    /\ isLoading' = TRUE
    /\ chartIssued' = chartIssued + 1
    /\ chartFetches' = chartFetches \cup {Request(chartIssued + 1, s)}
    /\ UNCHANGED chartData

\* The body of an ok response: the server answers for the symbol of the request.
ChartPayload(r, n) == [symbol |-> r.symbol, seq |-> r.seq, data_points |-> n]

\* if (response.ok) setChartData(await response.json()); nothing otherwise
ChartDataAfter(cur, r, outcome, n) ==
    IF outcome = "ok" THEN ChartPayload(r, n) ELSE cur

\* A request settles: ok response, non-ok response, or fetch throws; then
\* finally { setIsLoading(false) }.
ChartFetchSettles(r, outcome, n) ==
    /\ r \in chartFetches
    /\ chartFetches' = chartFetches \ {r}
    /\ chartData' = ChartDataAfter(chartData, r, outcome, n)
    /\ isLoading' = FALSE
    /\ UNCHANGED <<symbolProp, chartIssued>>

(***************************************************************************)
(* App: checkConnection.  A call awaits the /health response; when the     *)
(* response has arrived (or the fetch has thrown) the call resumes.        *)
(***************************************************************************)
MaxHealthChecks == 3

\* The App outside the specification of its health check: no call made.
HealthIdle ==
    /\ isConnected = FALSE
    /\ healthChecks = {}
    /\ healthIssued = 0

HealthCheck(n, status) == [seq |-> n, status |-> status]

\* useState(false), then the effect: checkConnection(); setInterval(...).
AppMounted ==
    /\ isConnected = FALSE
    /\ healthChecks = {HealthCheck(1, "awaiting")}
    /\ healthIssued = 1

\* setInterval(checkConnection, 5000)
HealthIntervalTick ==
    /\ healthIssued < MaxHealthChecks
    /\ healthIssued' = healthIssued + 1
    /\ healthChecks' = healthChecks \cup {HealthCheck(healthIssued + 1, "awaiting")}
    /\ UNCHANGED isConnected

\* The awaited fetch settles: ok response, non-ok response, or it throws.
HealthResponds(c, outcome) ==
    /\ c \in healthChecks
    /\ c.status = "awaiting"
    /\ healthChecks' = (healthChecks \ {c}) \cup {HealthCheck(c.seq, outcome)}
    /\ UNCHANGED <<isConnected, healthIssued>>

\* if (response.ok) setIsConnected(true); catch: setIsConnected(false)
IsConnectedAfter(cur, status) ==
    IF status = "ok" THEN TRUE
    ELSE IF status = "throws" THEN FALSE
    ELSE cur

\* checkConnection resumes after the await and runs to its end.
CheckConnectionResumes(c) ==
    /\ c \in healthChecks
    /\ c.status # "awaiting"
    /\ healthChecks' = healthChecks \ {c}
    /\ isConnected' = IsConnectedAfter(isConnected, c.status)
    /\ UNCHANGED healthIssued

(***************************************************************************)
(* LiveFeed: fetchLiveData.  A poll requests every symbol and awaits       *)
(* Promise.all of the requests.  A response is handled to the end before   *)
(* anything else happens: the request's async function returns its value   *)
(* or throws, and Promise.all settles as soon as it can.                   *)
(***************************************************************************)
NFeedSymbols == 2

MaxPolls == 2

FeedSymbols == <<"AAPL", "MSFT", "GOOGL", "AMZN", "TSLA">>

\* The symbols a poll requests, in the order of the list.
FeedIndices == 1..Min2(NFeedSymbols, Len(FeedSymbols))

\* The LiveFeed outside the specification of its polls: no poll made.
FeedIdle ==
    /\ feedData = <<>>
    /\ lfIsConnected = FALSE
    /\ polls = {}
    /\ pollsIssued = 0
    /\ arrived = NULL

\* symbols.map(async (symbol) => ...): one request per symbol, all pending.
Poll(n) == [seq |-> n, responses |-> [i \in FeedIndices |-> "awaiting"]]

\* useState([]), useState(false), then the effect: fetchLiveData(); setInterval(...).
FeedMounted ==
    /\ feedData = <<>>
    /\ lfIsConnected = FALSE
    /\ polls = {Poll(1)}
    /\ pollsIssued = 1
    /\ arrived = NULL

\* setInterval(fetchLiveData, 10000)
FeedIntervalTick ==
    /\ arrived = NULL
    /\ pollsIssued < MaxPolls
    /\ pollsIssued' = pollsIssued + 1
    /\ polls' = polls \cup {Poll(pollsIssued + 1)}
    /\ UNCHANGED <<feedData, lfIsConnected, arrived>>

\* The fetch of symbol i of a poll settles: ok response, non-ok response, or
\* it throws.
FeedResponseArrives(q, i, outcome) ==
    /\ arrived = NULL
    /\ q \in polls
    /\ q.responses[i] = "awaiting"
    /\ arrived' = [poll |-> q.seq, index |-> i, outcome |-> outcome]
    /\ UNCHANGED <<feedData, lfIsConnected, polls, pollsIssued>>

\* await response.json() of the request for symbol i made by poll n
FeedPayload(n, i) == [symbol |-> FeedSymbols[i], seq |-> n]

\* The array Promise.all resolves with: the payload of an ok response, null
\* for a non-ok one.
PollResults(q) ==
    [i \in FeedIndices |-> IF q.responses[i] = "ok" THEN FeedPayload(q.seq, i) ELSE NULL]

\* Faulty variant: the nulls of the non-ok responses are kept.
UnfilteredResults(res) == res

\* results.filter(result => result !== null)
ValidResults(res) == SelectSeq(res, LAMBDA result : result # NULL)

\* The request's function returns or throws, and fetchLiveData resumes if
\* Promise.all settles: it rejects at the first throw and resolves when the
\* last request has returned.
FetchLiveDataResumes ==
    /\ arrived # NULL
    /\ arrived' = NULL
    /\ LET q == CHOOSE x \in polls : x.seq = arrived.poll
           upd == [q EXCEPT !.responses[arrived.index] = arrived.outcome]
       IN  IF arrived.outcome = "throws"
           THEN /\ lfIsConnected' = FALSE
                /\ polls' = polls \ {q}
                /\ UNCHANGED feedData
           ELSE IF \A i \in FeedIndices : upd.responses[i] # "awaiting"
           THEN /\ feedData' = ValidResults(PollResults(upd))
                /\ lfIsConnected' = TRUE
                /\ polls' = polls \ {q}
           ELSE /\ polls' = (polls \ {q}) \cup {upd}
                /\ UNCHANGED <<feedData, lfIsConnected>>
    /\ UNCHANGED pollsIssued

(***************************************************************************)
(* App: the router mounts the element of one route at a time.  Leaving a   *)
(* route unmounts its component: its state is discarded, and whatever its  *)
(* pending timers and fetches would set has no effect any more.            *)
(***************************************************************************)
Init ==
    /\ page = "dashboard"
    /\ BacktestInit
    /\ TradingUnmounted
    /\ portfolio = PortfolioInitial
    /\ SmaIdle
    /\ ChartUnmounted
    /\ HealthIdle
    /\ FeedIdle

BacktestReset ==
    /\ btSelectedSymbol' = "AAPL"
    /\ btSelectedStrategy' = "sma_crossover"
    /\ period' = "1y"
    /\ isRunning' = FALSE
    /\ results' = NULL
    /\ timers' = <<>>
    /\ btpc' = "idle"
    /\ closure' = NULL
    /\ loopIndex' = 0
    /\ equity' = InitialCapital
    /\ maxEquity' = InitialCapital
    /\ equityData' = <<>>
    /\ drawdownData' = <<>>

TradingReset ==
    /\ selectedSymbol' = "AAPL"
    /\ selectedStrategy' = "sma_crossover"
    /\ isTrading' = FALSE
    /\ trades' = <<>>
    /\ signals' = <<>>
    /\ pnlData' = <<>>
    /\ livePrice' = NULL
    /\ interval' = "none"
    /\ inflight' = {}
    /\ issued' = 0

Navigate(target) ==
    /\ Quiescent
    /\ target # page
    /\ page' = target
    /\ BacktestReset
    /\ IF target = "trading" THEN TradingMounted ELSE TradingReset
    /\ portfolio' = PortfolioInitial
    /\ UNCHANGED <<smaVars, chVars, appVars, lfVars>>

btFrame == UNCHANGED <<page, trVars, portfolio, smaVars, chVars, appVars, lfVars>>

trFrame == UNCHANGED <<page, btVars, portfolio, smaVars, chVars, appVars, lfVars>>

Next ==
    \/ \E target \in Pages : Navigate(target)
    \/ (\E s \in SymbolChoices : BtSetSelectedSymbol(s)) /\ btFrame
    \/ (\E s \in StrategyChoices : BtSetSelectedStrategy(s)) /\ btFrame
    \/ (\E p \in PeriodChoices : SetPeriod(p)) /\ btFrame
    \/ runBacktest /\ btFrame
    \/ (\E k \in 1..Len(timers) : TimerFires(k)) /\ btFrame
    \/ ForEachTrade /\ btFrame
    \/ BacktestCompletes /\ btFrame
    \/ (\E s \in SymbolChoices : SetSelectedSymbol(s)) /\ trFrame
    \/ (\E s \in StrategyChoices : SetSelectedStrategy(s)) /\ trFrame
    \/ IntervalTick /\ trFrame
    \/ (\E r \in inflight, outcome \in {"ok", "notok", "throws"}, p \in Prices :
           FetchSettles(r, outcome, p)) /\ trFrame
    \/ startTrading /\ trFrame
    \/ stopTrading /\ trFrame

Spec == Init /\ [][Next]_vars

(***************************************************************************)
(* The life of a backtest run on its own: the user navigates, picks a      *)
(* symbol and clicks Run; a pending timeout expires after its 2000 ms and  *)
(* its callback runs to completion, as long as the component stays mounted.*)
(***************************************************************************)
RunNext ==
    \/ \E target \in Pages : Navigate(target)
    \/ (\E s \in SymbolChoices : BtSetSelectedSymbol(s)) /\ btFrame
    \/ runBacktest /\ btFrame
    \/ (\E k \in 1..Len(timers) : TimerFires(k)) /\ btFrame
    \/ ForEachTrade /\ btFrame
    \/ BacktestCompletes /\ btFrame

BacktestFairness ==
    /\ WF_vars((\E k \in 1..Len(timers) : TimerFires(k)) /\ btFrame)
    /\ WF_vars(ForEachTrade /\ btFrame)
    /\ WF_vars(BacktestCompletes /\ btFrame)

RunSpec == Init /\ [][RunNext]_vars /\ BacktestFairness

(***************************************************************************)
(* computeSMA on its own: the Dashboard's Chart evaluates it on any        *)
(* response of at most MaxBars bars, with any period up to MaxPeriod.      *)
(***************************************************************************)
SmaInit ==
    /\ page = "dashboard"
    /\ BacktestInit
    /\ TradingUnmounted
    /\ portfolio = PortfolioInitial
    /\ data \in BarSeqs
    /\ smaPeriod \in 1..MaxPeriod
    /\ computed = NULL
    /\ processedData = NULL
    /\ ChartUnmounted
    /\ HealthIdle
    /\ FeedIdle

smaFrame == UNCHANGED <<page, btVars, trVars, portfolio, chVars, appVars, lfVars>>

(***************************************************************************)
(* The Chart's requests on their own: the Dashboard renders the Chart and  *)
(* changes its symbol prop; responses arrive in any order.                 *)
(***************************************************************************)
ChartInit ==
    /\ page = "dashboard"
    /\ BacktestInit
    /\ TradingUnmounted
    /\ portfolio = PortfolioInitial
    /\ SmaIdle
    /\ ChartMounted
    /\ HealthIdle
    /\ FeedIdle

chFrame == UNCHANGED <<page, btVars, trVars, portfolio, smaVars, appVars, lfVars>>

ChartNext ==
    \/ (\E s \in SymbolChoices : SymbolPropChanges(s)) /\ chFrame
    \/ (\E r \in chartFetches, outcome \in {"ok", "notok", "throws"}, n \in DataPoints :
           ChartFetchSettles(r, outcome, n)) /\ chFrame

ChartSpec == ChartInit /\ [][ChartNext]_vars

(***************************************************************************)
(* The App's health check on its own: the interval issues calls and the    *)
(* responses arrive in any order.                                          *)
(***************************************************************************)
HealthInit ==
    /\ page = "dashboard"
    /\ BacktestInit
    /\ TradingUnmounted
    /\ portfolio = PortfolioInitial
    /\ SmaIdle
    /\ ChartUnmounted
    /\ AppMounted
    /\ FeedIdle

appFrame == UNCHANGED <<page, btVars, trVars, portfolio, smaVars, chVars, lfVars>>

HealthNext ==
    \/ HealthIntervalTick /\ appFrame
    \/ (\E c \in healthChecks, outcome \in {"ok", "notok", "throws"} :
           HealthResponds(c, outcome)) /\ appFrame
    \/ (\E c \in healthChecks : CheckConnectionResumes(c)) /\ appFrame

HealthSpec == HealthInit /\ [][HealthNext]_vars

(***************************************************************************)
(* The LiveFeed's polls on their own: the Dashboard renders the LiveFeed,  *)
(* the interval issues polls and the responses arrive in any order.        *)
(***************************************************************************)
FeedInit ==
    /\ page = "dashboard"
    /\ BacktestInit
    /\ TradingUnmounted
    /\ portfolio = PortfolioInitial
    /\ SmaIdle
    /\ ChartUnmounted
    /\ HealthIdle
    /\ FeedMounted

lfFrame == UNCHANGED <<page, btVars, trVars, portfolio, smaVars, chVars, appVars>>

FeedNext ==
    \/ FeedIntervalTick /\ lfFrame
    \/ (\E q \in polls, i \in FeedIndices, outcome \in {"ok", "notok", "throws"} :
           FeedResponseArrives(q, i, outcome)) /\ lfFrame
    \/ FetchLiveDataResumes /\ lfFrame

FeedSpec == FeedInit /\ [][FeedNext]_vars

SmaNext ==
    \/ CallComputeSMA /\ smaFrame
    \/ BuildProcessedData /\ smaFrame

SmaSpec == SmaInit /\ [][SmaNext]_vars

(***************************************************************************)
(* Properties                                                              *)
(***************************************************************************)
RECURSIVE SeqSum(_)
SeqSum(q) == IF q = <<>> THEN 0 ELSE q[1] + SeqSum(Tail(q))

SetMax(S) == CHOOSE m \in S : \A x \in S : x <= m

\* What the Idle -> Holding -> Idle machine records from a signal sequence:
\* a BUY while Holding and a SELL while Idle are suppressed.
RECURSIVE MachineLedger(_, _)
MachineLedger(sigTypes, holding) ==
    IF sigTypes = <<>> THEN <<>>
    ELSE LET t == Head(sigTypes)
         IN  IF t = "BUY" /\ ~holding THEN <<t>> \o MachineLedger(Tail(sigTypes), TRUE)
             ELSE IF t = "SELL" /\ holding THEN <<t>> \o MachineLedger(Tail(sigTypes), FALSE)
             ELSE MachineLedger(Tail(sigTypes), holding)

ActionsOf(ledger) == [i \in 1..Len(ledger) |-> ledger[i].action]

Alternates(ledger) ==
    \A i \in 1..Len(ledger) : ledger[i].action = IF i % 2 = 1 THEN "BUY" ELSE "SELL"

RECURSIVE CashAfter(_, _)
CashAfter(ledger, t) ==
    IF t = 0 THEN InitialCapital
    ELSE IF ledger[t].action = "BUY"
         THEN CashAfter(ledger, t - 1) - ledger[t].quantity * ledger[t].price
         ELSE CashAfter(ledger, t - 1) + ledger[t].quantity * ledger[t].price

RECURSIVE QuantityAfter(_, _)
QuantityAfter(ledger, t) ==
    IF t = 0 THEN 0
    ELSE IF ledger[t].action = "BUY"
         THEN QuantityAfter(ledger, t - 1) + ledger[t].quantity
         ELSE QuantityAfter(ledger, t - 1) - ledger[t].quantity

PositionsValue(positions) ==
    SeqSum([i \in 1..Len(positions) |-> positions[i].shares * positions[i].currentPrice])

\* C2: equity conservation: the displayed portfolio's total value is cash
\* plus the sum of quantity x current price of its positions, and every
\* point of the equity curve is cash plus quantity x price at that bar.
C2_EquityConservation ==
    /\ PortfolioShown =>
          portfolio.totalValue = portfolio.cash + PositionsValue(portfolio.positions)
    /\ \A t \in 1..Len(equityData) :
          equityData[t].equity =
              CashAfter(BacktestTrades, t)
                  + QuantityAfter(BacktestTrades, t) * BacktestTrades[t].price

\* The running peak of an equity curve at t, equity(0) being the initial equity.
PeakAt(curve, t) == SetMax({InitialCapital} \cup {curve[i].equity : i \in 1..t})

\* C3 (as stated): the drawdown curve value at t is the fraction
\* (equity(t) - max(equity(0..t))) / max(equity(0..t)).
C3_DrawdownIsFraction ==
    results # NULL =>
        \A t \in 1..Len(results.drawdownData) :
            FracEq(results.drawdownData[t].drawdown,
                   Frac(results.equityData[t].equity - PeakAt(results.equityData, t),
                        PeakAt(results.equityData, t)))

\* C3 (amended): the drawdown curve value at t is that fraction as a
\* percentage: 100 x (equity(t) - max(equity(0..t))) / max(equity(0..t)),
\* and the two curves have one point per trade, with the same dates.
C3_DrawdownIsPercent ==
    results # NULL =>
        /\ Len(results.drawdownData) = Len(results.equityData)
        /\ \A t \in 1..Len(results.drawdownData) :
            /\ results.drawdownData[t].date = results.equityData[t].date
            /\ FracEq(results.drawdownData[t].drawdown,
                      Frac(100 * (results.equityData[t].equity
                                     - PeakAt(results.equityData, t)),
                           PeakAt(results.equityData, t)))

C3_Witness ==
    /\ results # NULL
    /\ \E t \in 1..Len(results.drawdownData) : results.drawdownData[t].drawdown.num < 0

Zero == Frac(0, 1)

\* C4: every value of the drawdown curve is <= 0 and its first point is 0,
\* while the curve is built and in the result.
C4_DrawdownBound ==
    /\ \A t \in 1..Len(drawdownData) : FracLeq(drawdownData[t].drawdown, Zero)
    /\ Len(drawdownData) >= 1 => FracEq(drawdownData[1].drawdown, Zero)
    /\ results # NULL =>
          /\ \A t \in 1..Len(results.drawdownData) :
                FracLeq(results.drawdownData[t].drawdown, Zero)
          /\ Len(results.drawdownData) >= 1
          /\ FracEq(results.drawdownData[1].drawdown, Zero)

C4_Witness ==
    /\ results # NULL
    /\ Len(results.drawdownData) = Len(BacktestTrades)
    /\ results.finalCapital > InitialCapital

\* C5: within a run the running peak never decreases from one processed
\* trade to the next, and after each processed trade it is >= the current
\* equity.
C5_PeakMonotonic ==
    [][(btpc = "loop" /\ btpc' = "loop") =>
          (maxEquity' >= maxEquity /\ maxEquity' >= equity')]_vars

C5_Witness == btpc = "loop" /\ loopIndex > 0 /\ maxEquity > equity

\* Run-level drawdown limits (fractions of the peak) a run may be configured with.
MaxDrawdownFractions == {Frac(1, 1000), Frac(1, 10)}

\* current_drawdown <= -max_drawdown_fraction at point t of a result's curve
\* (the curve is in percent).
HaltTriggered(res, t, f) ==
    res.drawdownData[t].drawdown.num * f.den
        <= (0 - f.num) * 100 * res.drawdownData[t].drawdown.den

\* C6: once the drawdown has reached the run's limit, the position is closed
\* and no BUY is recorded at any later bar, whatever the limit of the run is.
C6_NoEntryAfterDrawdownHalt ==
    results # NULL =>
        \A f \in MaxDrawdownFractions :
            \A t \in 1..Len(results.drawdownData) :
                HaltTriggered(results, t, f) =>
                    /\ QuantityAfter(results.trades, t) = 0
                    /\ \A u \in (t + 1)..Len(results.trades) :
                          results.trades[u].action # "BUY"

\* Stop-loss percentages a session may be configured with.
StopLossPcts == {1, 3, 10}

\* The bars of a session are its signals (date x, price y); the trades of a
\* bar are the ledger entries stamped with the bar's date.
TradesAtBar(j) == {k \in 1..Len(trades) : trades[k].timestamp = ToISOString(signals[j].x)}

BarOfTrade(k) == CHOOSE j \in 1..Len(signals) : k \in TradesAtBar(j)

TradesBeforeBar(j) == {k \in 1..Len(trades) : BarOfTrade(k) < j}

LastTradeBeforeBar(j) == SetMax(TradesBeforeBar(j))

HoldingBeforeBar(j) ==
    /\ TradesBeforeBar(j) # {}
    /\ trades[LastTradeBeforeBar(j)].action = "BUY"

StopLossBreached(j, sl) ==
    /\ HoldingBeforeBar(j)
    /\ signals[j].y * 100 <= trades[LastTradeBeforeBar(j)].price * (100 - sl)

C9_NoOlderQuoteOverwrites ==
    [][(livePrice # NULL /\ livePrice' # NULL) => livePrice'.seq >= livePrice.seq]_vars

\* C10: on the Trading page every step that ends with the session inactive
\* (the stop itself, and whatever follows it until the next start, ticks
\* included) leaves the ledger, the signals and the P&L series as they were;
\* and a stop is possible whenever a session is active.
C10_StopKeepsFinalState ==
    /\ [][(page = "trading" /\ page' = "trading" /\ ~isTrading') =>
             UNCHANGED <<trades, signals, pnlData>>]_vars
    /\ [](page = "trading" /\ isTrading => ENABLED (stopTrading /\ trFrame))

\* A stopped session with its ledger, while a live-price request is in flight.
C10_Witness ==
    /\ page = "trading"
    /\ ~isTrading
    /\ Len(trades) = 4
    /\ Len(pnlData) = 4
    /\ inflight # {}


(***************************************************************************)
(* Performance metrics of a completed backtest                             *)
(***************************************************************************)
ClosingTrades(ledger) == SelectSeq(ledger, LAMBDA t : t.action = "SELL")

\* C11: the reported win rate is the number of trades with positive
\* realized P&L divided by the number of closing trades (as a fraction or
\* as a percentage), not by the number of all trades.
C11_WinRateOverClosingTrades ==
    results # NULL =>
        LET wins == Len(Winning(results.trades))
            closing == Len(ClosingTrades(results.trades))
        IN  closing > 0 =>
                \/ FracEq(results.winRate, Frac(wins, closing))
                \/ FracEq(results.winRate, Frac(100 * wins, closing))

AnnualPeriods == {1, 4, 12, 52, 252, 365}

\* Bounds, in units of 1/10000, on the period returns of an equity curve
\* that starts at capital `first`: entry k bounds (e[k] - e[k-1]) / e[k-1].
ReturnBounds(curve, first) ==
    [k \in 1..Len(curve) |->
        LET prev == IF k = 1 THEN first ELSE curve[k - 1].equity
            d == (curve[k].equity - prev) * 10000
        IN  [lo |-> d \div prev, hi |-> 0 - ((0 - d) \div prev)]]

RECURSIVE SumLo(_)
SumLo(b) == IF b = <<>> THEN 0 ELSE Head(b).lo + SumLo(Tail(b))

RECURSIVE SumHi(_)
SumHi(b) == IF b = <<>> THEN 0 ELSE Head(b).hi + SumHi(Tail(b))

\* Bounds on the squares of the returns.
SquareBounds(b) ==
    [k \in 1..Len(b) |->
        LET l == b[k].lo
            h == b[k].hi
        IN  IF l >= 0 THEN [lo |-> l * l, hi |-> h * h]
            ELSE IF h <= 0 THEN [lo |-> h * h, hi |-> l * l]
            ELSE [lo |-> 0, hi |-> IF l * l > h * h THEN l * l ELSE h * h]]

\* Whether Sharpe ratio sh = mean / stdev * sqrt(ppy) is possible for returns
\* within bounds b, with the population (ddof = 0) or the sample (ddof = 1)
\* standard deviation.  With n returns, S their sum and Q the sum of their
\* squares, sh^2 * n * (n * Q - S^2) = ppy * (n - ddof) * S^2.
SharpeConsistent(sh, b, ppy, ddof) ==
    LET n == Len(b)
        sLo == SumLo(b)
        sHi == SumHi(b)
        sq == SquareBounds(b)
        yLo == IF sLo >= 0 THEN sLo * sLo ELSE IF sHi <= 0 THEN sHi * sHi ELSE 0
        yHi == IF sLo * sLo > sHi * sHi THEN sLo * sLo ELSE sHi * sHi
        xLo == n * SumLo(sq) - yHi
        xHi == n * SumHi(sq) - yLo
        c == sh.num * sh.num
        e == sh.den * sh.den
    IN  /\ sLo > 0 => sh.num > 0
        /\ sHi < 0 => sh.num < 0
        /\ ppy * (n - ddof) * yHi >= 0 - ((0 - (c * n * xLo)) \div e)
        /\ ppy * (n - ddof) * yLo <= (c * n * xHi) \div e

\* Whether the returns within bounds b certainly vary.
ReturnsVary(b) == Len(b) * SumLo(SquareBounds(b)) - SumHi(b) * SumHi(b) > 0

\* C13: the reported Sharpe ratio is mean(returns) / stdev(returns) *
\* sqrt(periods per year) for the period returns of the equity curve, and
\* it is null when the standard deviation is zero.
C13_SharpeFromReturns ==
    results # NULL =>
        LET b == ReturnBounds(results.equityData, results.initialCapital)
        IN  IF ReturnsVary(b)
            THEN /\ results.sharpeRatio # NULL
                 /\ \E ppy \in AnnualPeriods, ddof \in {0, 1} :
                        SharpeConsistent(results.sharpeRatio, b, ppy, ddof)
            ELSE \A k \in 1..Len(b) : b[k].lo = 0 /\ b[k].hi = 0
                     => results.sharpeRatio = NULL

FinalEquity(r) == r.equityData[Len(r.equityData)].equity

\* C14 (as stated): the reported total return is the fraction
\* (final - initial) / initial, with final the last equity-curve value.
C14_TotalReturnIsFraction ==
    results # NULL =>
        LET fraction == Frac(FinalEquity(results) - results.initialCapital,
                             results.initialCapital)
        IN  \/ FracEq(Frac(results.totalReturn, 1), fraction)
            \/ FracEq(results.totalReturnPercentage, fraction)

\* C14 (amended): totalReturn is the currency amount final - initial and
\* totalReturnPercentage is 100 * (final - initial) / initial, with final
\* the last equity-curve value.
C14_TotalReturnIsAmountAndPercent ==
    results # NULL =>
        LET gain == FinalEquity(results) - results.initialCapital
        IN  /\ results.finalCapital = FinalEquity(results)
            /\ results.totalReturn = gain
            /\ FracEq(results.totalReturnPercentage,
                      Frac(100 * gain, results.initialCapital))

C14_Witness ==
    /\ results # NULL
    /\ FinalEquity(results) # results.initialCapital
    /\ results.totalReturn = 1600

\* C15: the reported maximum drawdown is the minimum value of the drawdown
\* curve: it is one of the curve's values and no value is below it.
C15_MaxDrawdownIsMinimum ==
    results # NULL =>
        /\ \E k \in 1..Len(results.drawdownData) :
               results.drawdownData[k].drawdown = results.maxDrawdown
        /\ \A k \in 1..Len(results.drawdownData) :
               FracLeq(results.maxDrawdown, results.drawdownData[k].drawdown)

C15_Witness ==
    /\ results # NULL
    /\ results.maxDrawdown.num < 0
    /\ \E k \in 1..Len(results.drawdownData) :
           ~FracEq(results.drawdownData[k].drawdown, results.maxDrawdown)

\* The realized P&L pnl of trade i of a ledger: 0 for a BUY, and for a SELL
\* the proceeds less the cost of the BUY just before it.
RealizedPnlOk(ledger, i, pnl) ==
    /\ ledger[i].action = "BUY" => pnl = 0
    /\ ledger[i].action = "SELL" =>
           /\ i > 1
           /\ ledger[i - 1].action = "BUY"
           /\ pnl = ledger[i].price * ledger[i].quantity
                    - ledger[i - 1].price * ledger[i - 1].quantity

\* C16: in the backtest ledger and in the trading session's ledger every
\* BUY has realized P&L 0 and every SELL has realized P&L equal to its
\* proceeds less the cost of the preceding BUY.
C16_RealizedPnl ==
    /\ results # NULL =>
           \A i \in 1..Len(results.trades) :
               RealizedPnlOk(results.trades, i, results.trades[i].pnl)
    /\ Len(pnlData) = Len(trades)
    /\ \A i \in 1..Len(trades) :
           RealizedPnlOk(trades, i,
                         pnlData[i].pnl - (IF i = 1 THEN 0 ELSE pnlData[i - 1].pnl))

C16_Witness ==
    /\ page = "trading"
    /\ Len(trades) = 4
    /\ pnlData[2].pnl = 500
    /\ pnlData[4].pnl = 0

(***************************************************************************)
(* The simple moving average of the Chart                                  *)
(***************************************************************************)
\* Sum of the closes of bars lo..hi (1-based, inclusive) of arr.
RECURSIVE CloseSum(_, _, _)
CloseSum(arr, lo, hi) == IF lo > hi THEN 0 ELSE arr[hi].Close + CloseSum(arr, lo, hi - 1)

\* C17: computeSMA returns a sequence as long as its input; its first
\* period - 1 entries have no value, and every entry i >= period - 1 is the
\* arithmetic mean of the closes at positions i - period + 1 .. i.
C17_SmaShapeAndMean ==
    computed # NULL =>
        LET out == computed.returned
        IN  /\ Len(out) = Len(data)
            /\ \A k \in 1..Len(data) :
                   IF k < smaPeriod
                   THEN out[k].sma = NULL
                   ELSE /\ IsFinite(out[k].sma)
                        /\ out[k].sma.num * smaPeriod
                               = out[k].sma.den * CloseSum(data, k - smaPeriod + 1, k)

C17_Witness ==
    /\ computed # NULL
    /\ smaPeriod = 3
    /\ Len(data) = 4
    /\ computed.returned[2].sma = NULL
    /\ computed.returned[4].sma = Frac(7, 3)

\* C18: computeSMA called on an input shorter than its period fails with
\* InsufficientDataError; it never returns an empty, null or filled series.
C18_ShortInputFails ==
    (computed # NULL /\ Len(data) < smaPeriod) =>
        computed = [thrown |-> "InsufficientDataError"]

\* C19: no look-ahead: computing the SMA of the series truncated after any
\* bar leaves every value at or before that bar as it is in the SMA of the
\* whole series.
C19_NoLookAhead ==
    computed # NULL =>
        \A n \in 0..Len(data) :
            LET truncated == computeSMA(SubSeq(data, 1, n), smaPeriod)
            IN  \A k \in 1..n : truncated[k].sma = computed.returned[k].sma

C19_Witness ==
    /\ computed # NULL
    /\ smaPeriod = 2
    /\ Len(data) = 4
    /\ data[3].Close # data[4].Close
    /\ computed.returned[3].sma # computed.returned[4].sma

\* C20: computing the SMA and the series derived from it never changes the
\* input: the array and each of its bars stay as they were.
C20_InputNotMutated == [][data' = data]_vars

C20_Witness ==
    /\ processedData # NULL
    /\ Len(data) >= smaPeriod
    /\ Len(processedData.returned) = Len(data) - smaPeriod + 1
    /\ \A k \in 1..Len(data) : data[k] = Bar(k, data[k].Close)
    /\ Len(data) > 1

(***************************************************************************)
(* The Backtest run                                                        *)
(***************************************************************************)
\* The completion callback is at its last step: the loop is done and
\* mockResults is about to be built and stored.
Completing == btpc = "loop" /\ btpc' = "idle"

\* C21: deriving the metrics leaves the ledger and the equity and drawdown
\* sequences as they were: the result holds the ledger and the sequences the
\* loop built, and the loop's sequences are the same after the result is
\* built.
C21_MetricsLeaveLedger ==
    [][Completing =>
          /\ results'.trades = BacktestTrades
          /\ results'.equityData = equityData
          /\ results'.drawdownData = drawdownData
          /\ equityData' = equityData
          /\ drawdownData' = drawdownData]_vars

C21_Witness ==
    /\ results # NULL
    /\ btpc = "idle"
    /\ Len(results.trades) = Len(BacktestTrades)
    /\ results.equityData = equityData
    /\ Len(equityData) = Len(BacktestTrades)
    /\ results.winningTrades = 2

\* A run is pending from the click on Run until its callback has finished.
PendingRuns == Len(timers) + (IF btpc = "loop" THEN 1 ELSE 0)

Selection ==
    [symbol |-> btSelectedSymbol, strategy |-> btSelectedStrategy, period |-> period]

\* C25: a run records the selection current at the click on Run, and its
\* result carries that selection; changing the selection changes neither a
\* pending run nor the displayed result.
C25_ResultHasClickSelection ==
    [][/\ Len(timers') > Len(timers) => timers'[Len(timers')] = Selection
       /\ (btpc = "idle" /\ btpc' = "loop") => \E k \in 1..Len(timers) : closure' = timers[k]
       /\ Completing =>
              /\ results'.symbol = closure.symbol
              /\ results'.strategy = closure.strategy
              /\ results'.period = closure.period
       /\ (Selection' # Selection /\ page' = page) =>
              /\ timers' = timers
              /\ closure' = closure
              /\ results' = results]_vars

C25_Witness ==
    /\ results # NULL
    /\ results.symbol # btSelectedSymbol
    /\ results.period # period
    /\ Len(timers) = 1
    /\ timers[1].symbol = btSelectedSymbol
    /\ timers[1].strategy # results.strategy

(***************************************************************************)
(* The Trading page's P&L series and live price                            *)
(***************************************************************************)
\* Sum over the consecutive BUY/SELL pairs (1, 2), (3, 4), ... among the
\* first n trades of (sell price - buy price) x quantity.
RECURSIVE PairSum(_, _)
PairSum(ledger, n) ==
    IF n < 2 THEN 0
    ELSE IF n % 2 = 1 THEN PairSum(ledger, n - 1)
    ELSE (ledger[n].price - ledger[n - 1].price) * ledger[n].quantity
         + PairSum(ledger, n - 2)

\* C30: the cumulative P&L series has one entry per trade in ledger order;
\* the entry at an even 0-based index equals the previous entry (0 for the
\* first), the entry at an odd index adds (price - previous trade's price) x
\* quantity, so the last entry is the sum over the BUY/SELL pairs.
C30_CumulativePnlSeries ==
    /\ Len(pnlData) = Len(trades)
    /\ \A k \in 1..Len(trades) :
           /\ pnlData[k].time = trades[k].timestamp
           /\ (k - 1) % 2 = 0 =>
                  pnlData[k].pnl = (IF k = 1 THEN 0 ELSE pnlData[k - 1].pnl)
           /\ (k - 1) % 2 = 1 =>
                  pnlData[k].pnl = pnlData[k - 1].pnl
                      + (trades[k].price - trades[k - 1].price) * trades[k].quantity
    /\ Len(trades) > 0 => pnlData[Len(trades)].pnl = PairSum(trades, Len(trades))

C30_Witness ==
    /\ page = "trading"
    /\ Len(trades) = 4
    /\ trades[1].price = 35
    /\ pnlData[1].pnl = 0
    /\ pnlData[3].pnl = 500
    /\ pnlData[4].pnl = 0

\* C28: on the Trading page one polling timer is active, for the selected
\* symbol; every request issued is for the symbol selected at that moment;
\* and a quote stored in livePrice is a quote for the selected symbol, even
\* when the request was issued before the symbol changed.
C28_LivePriceOfSelectedSymbol ==
    /\ [](page = "trading" => interval = selectedSymbol)
    /\ [][/\ \A r \in inflight' \ inflight : r.symbol = selectedSymbol'
          /\ (livePrice' # livePrice /\ livePrice' # NULL) =>
                 livePrice'.symbol = selectedSymbol']_vars

(***************************************************************************)
(* The Chart's historical-data requests                                    *)
(***************************************************************************)
\* C22: once no historical-data request is in flight, the chartData shown
\* belongs to the current symbol prop.
C22_ChartDataOfCurrentSymbol ==
    (chartFetches = {} /\ chartData # NULL) => chartData.symbol = symbolProp

\* C29: isLoading is true whenever a request for the current symbol is in
\* flight; it is false after a request completes, whatever the outcome; and
\* a request that completes leaves chartData as it was or stores its own
\* ok response.
C29_LoadingWhileFetching ==
    /\ []((\E r \in chartFetches : r.symbol = symbolProp) => isLoading)
    /\ [][\A r \in chartFetches \ chartFetches' :
              /\ ~isLoading'
              /\ chartData' = chartData
                 \/ (chartData' # NULL /\ chartData'.seq = r.seq)]_vars

(***************************************************************************)
(* The App's connection flag                                               *)
(***************************************************************************)
\* C26: after any health check completes, isConnected is true if and only
\* if that check's /health request returned an ok response.
C26_FlagIsOutcomeOfCheck ==
    [][\A c \in healthChecks \ healthChecks' :
           c.status # "awaiting" => (isConnected' <=> c.status = "ok")]_vars

(***************************************************************************)
(* The LiveFeed poll                                                       *)
(***************************************************************************)
\* The payloads of the ok responses from symbol i on, in the order of the
\* symbols list.
RECURSIVE OkPayloadsFrom(_, _, _)
OkPayloadsFrom(responses, n, i) ==
    IF i \notin DOMAIN responses THEN <<>>
    ELSE (IF responses[i] = "ok" THEN <<[symbol |-> FeedSymbols[i], seq |-> n]>> ELSE <<>>)
         \o OkPayloadsFrom(responses, n, i + 1)

\* C27: a poll is all-or-nothing.  When a request throws, feedData is left
\* unchanged and isConnected becomes false; when the last request of a poll
\* returns, feedData becomes exactly the payloads of the poll's ok responses
\* in the order of the symbols list and isConnected becomes true; a response
\* that leaves requests of its poll pending changes neither.
C27_PollAllOrNothing ==
    [][(arrived # NULL /\ arrived' = NULL) =>
          LET q == CHOOSE x \in polls : x.seq = arrived.poll
              responses == [q.responses EXCEPT ![arrived.index] = arrived.outcome]
          IN  IF arrived.outcome = "throws"
              THEN feedData' = feedData /\ ~lfIsConnected'
              ELSE IF \A i \in DOMAIN responses : responses[i] # "awaiting"
              THEN feedData' = OkPayloadsFrom(responses, q.seq, 1) /\ lfIsConnected'
              ELSE feedData' = feedData /\ lfIsConnected' = lfIsConnected]_vars

C27_Witness ==
    /\ polls = {}
    /\ arrived = NULL
    /\ ~lfIsConnected
    /\ Len(feedData) = 1
    /\ feedData[1].symbol = "MSFT"
    /\ feedData[1].seq = 1


====
